---- MODULE Spec2Model ----
(***************************************************************************)
(* Model of quiz_app.py: the text-to-question parser (parse_questions) and *)
(* the Streamlit session the script main() drives.                         *)
(*                                                                         *)
(* A Python str is a sequence of one-character strings.  The code point    *)
(* U+2713 (check mark) is written Check.  Python's None is NoneVal, which  *)
(* is no character sequence.  One step of the model is one run of the      *)
(* script main() from its first line to its end or to its st.rerun().      *)
(* A file in the file_uploader is kept as what json.load makes of its      *)
(* characters; the export is what json.dumps writes.                       *)
(***************************************************************************)
EXTENDS Integers, Sequences, FiniteSets, TLC

VARIABLES
    questions,               \* st.session_state.questions
    current_question_index,  \* st.session_state.current_question_index
    user_answers,            \* st.session_state.user_answers: index -> option
    quiz_started,            \* st.session_state.quiz_started
    quiz_completed,          \* st.session_state.quiz_completed
    submitted,               \* st.session_state.submitted
    q_submitted,             \* st.session_state["q_<i>_submitted"], where set
    question_text,           \* content of the sidebar text_area
    uploaded_file,           \* file held by the file_uploader widget, or NoFile
    file_consumed,           \* the held file object was read to its end
    rerun_pending,           \* the last run ended in st.rerun()
    last_op                  \* the handler the last run of main() executed

vars == <<questions, current_question_index, user_answers, quiz_started,
          quiz_completed, submitted, q_submitted, question_text,
          uploaded_file, file_consumed, rerun_pending, last_op>>

-----------------------------------------------------------------------------
(* Characters and Python string primitives                                 *)

Check == "check"
NoneVal == <<"None">>
Newline == "\n"

Digits == {"0", "1", "2", "3", "4", "5", "6", "7", "8", "9"}

LowerLetters == <<"a","b","c","d","e","f","g","h","i","j","k","l","m",
                  "n","o","p","q","r","s","t","u","v","w","x","y","z">>
UpperLetters == <<"A","B","C","D","E","F","G","H","I","J","K","L","M",
                  "N","O","P","Q","R","S","T","U","V","W","X","Y","Z">>

UpperOf == [c \in {LowerLetters[i] : i \in DOMAIN LowerLetters} |->
              UpperLetters[CHOOSE i \in DOMAIN LowerLetters : LowerLetters[i] = c]]

\* re.IGNORECASE compares letters without regard to case
Upper(c) == IF c \in DOMAIN UpperOf THEN UpperOf[c] ELSE c

IsDigit(c) == c \in Digits

\* whitespace of str.strip() and of the regex class \s
IsSpace(c) == c \in {" ", "\t", Newline}

\* Python truthiness of a str-or-None / list value
Truthy(v) == v # NoneVal /\ v # <<>>

RECURSIVE LStrip(_)
LStrip(s) == IF s # <<>> /\ IsSpace(Head(s)) THEN LStrip(Tail(s)) ELSE s

RECURSIVE RStrip(_)
RStrip(s) ==
    IF s # <<>> /\ IsSpace(s[Len(s)]) THEN RStrip(SubSeq(s, 1, Len(s) - 1)) ELSE s

\* str.strip()
Strip(s) == RStrip(LStrip(s))

\* text.split('\n')
RECURSIVE SplitLines(_)
SplitLines(text) ==
    IF \E i \in 1..Len(text) : text[i] = Newline
    THEN LET i == CHOOSE i \in 1..Len(text) :
                      text[i] = Newline /\ \A j \in 1..(i - 1) : text[j] # Newline
         IN  <<SubSeq(text, 1, i - 1)>> \o SplitLines(SubSeq(text, i + 1, Len(text)))
    ELSE <<text>>

\* number of consecutive characters of s from position p on that satisfy the class
RECURSIVE DigitRun(_, _)
DigitRun(s, p) == IF p <= Len(s) /\ IsDigit(s[p]) THEN 1 + DigitRun(s, p + 1) ELSE 0

RECURSIVE SpaceRun(_, _)
SpaceRun(s, p) == IF p <= Len(s) /\ IsSpace(s[p]) THEN 1 + SpaceRun(s, p + 1) ELSE 0

RECURSIVE ColonSpaceRun(_, _)
ColonSpaceRun(s, p) ==
    IF p <= Len(s) /\ (s[p] = ":" \/ IsSpace(s[p]))
    THEN 1 + ColonSpaceRun(s, p + 1) ELSE 0

\* s holds word at position p, letters compared case-insensitively
MatchAtCI(s, p, word) ==
    /\ p + Len(word) - 1 <= Len(s)
    /\ \A i \in 1..Len(word) : Upper(s[p + i - 1]) = Upper(word[i])

\* s holds word at position p, exactly
MatchAt(s, p, word) ==
    /\ p + Len(word) - 1 <= Len(s)
    /\ \A i \in 1..Len(word) : s[p + i - 1] = word[i]

-----------------------------------------------------------------------------
(* parse_questions: line classification                                    *)

WordQuestion == <<"Q", "u", "e", "s", "t", "i", "o", "n">>
WordUestion == <<"u", "e", "s", "t", "i", "o", "n">>
WordCorrect == <<"[", "C", "O", "R", "R", "E", "C", "T", "]">>

\* ^\d+[\.\)]
NumberedHeader(line) ==
    LET n == DigitRun(line, 1)
    IN  n >= 1 /\ n + 1 <= Len(line) /\ line[n + 1] \in {".", ")"}

\* \s*[:\d] after a prefix of k characters
AfterQPrefix(line, k) ==
    LET p == k + 1 + SpaceRun(line, k + 1)
    IN  p <= Len(line) /\ (line[p] = ":" \/ IsDigit(line[p]))

\* ^(Q|Question)\s*[:\d], re.IGNORECASE
QHeader(line) ==
    \/ MatchAtCI(line, 1, <<"Q">>) /\ AfterQPrefix(line, 1)
    \/ MatchAtCI(line, 1, WordQuestion) /\ AfterQPrefix(line, Len(WordQuestion))

\* line 31: re.match(r"^\d+[\.\)]|^(Q|Question)\s*[:\d]", line, re.IGNORECASE)
IsHeaderLine(line) == NumberedHeader(line) \/ QHeader(line)

\* line 42: re.match(r"^[a-d1-4A-D]\)", line)
IsOptionLine(line) ==
    /\ Len(line) >= 2
    /\ line[1] \in {"a", "b", "c", "d", "1", "2", "3", "4", "A", "B", "C", "D"}
    /\ line[2] = ")"

\* length of the match of ^(Q(uestion)?[:\s]*\d*\.?) at the start of line, 0 if none
QPrefixLen(line) ==
    IF ~MatchAtCI(line, 1, <<"Q">>) THEN 0
    ELSE LET a == IF MatchAtCI(line, 2, WordUestion) THEN Len(WordQuestion) ELSE 1
             b == a + ColonSpaceRun(line, a + 1)
             c == b + DigitRun(line, b + 1)
         IN  IF c + 1 <= Len(line) /\ line[c + 1] = "." THEN c + 1 ELSE c

\* every match of \d+[\.\)] from position p on removed
RECURSIVE RemoveNumbering(_, _)
RemoveNumbering(line, p) ==
    IF p > Len(line) THEN <<>>
    ELSE LET n == DigitRun(line, p)
         IN  IF n >= 1 /\ p + n <= Len(line) /\ line[p + n] \in {".", ")"}
             THEN RemoveNumbering(line, p + n + 1)
             ELSE <<line[p]>> \o RemoveNumbering(line, p + 1)

\* line 38: re.sub(r"^(Q(uestion)?[:\s]*\d*\.?)|\d+[\.\)]", "", line,
\*                 flags=re.IGNORECASE).strip()
HeaderText(line) == Strip(RemoveNumbering(line, QPrefixLen(line) + 1))

\* line 43: line[2:].strip()
OptionText(line) == Strip(SubSeq(line, 3, Len(line)))

\* line 44: bool(re.search(r'\*|\[CORRECT\]|\✓', option_text, re.IGNORECASE))
IsCorrect(option_text) ==
    \E p \in 1..Len(option_text) :
        \/ option_text[p] = "*"
        \/ option_text[p] = Check
        \/ MatchAtCI(option_text, p, WordCorrect)

\* every match of \*|\[CORRECT\]|\✓ from position p on removed (no IGNORECASE)
RECURSIVE RemoveMarkers(_, _)
RemoveMarkers(s, p) ==
    IF p > Len(s) THEN <<>>
    ELSE IF s[p] = "*" \/ s[p] = Check THEN RemoveMarkers(s, p + 1)
    ELSE IF MatchAt(s, p, WordCorrect) THEN RemoveMarkers(s, p + Len(WordCorrect))
    ELSE <<s[p]>> \o RemoveMarkers(s, p + 1)

\* line 45: re.sub(r'\*|\[CORRECT\]|\✓', '', option_text).strip()
CleanText(option_text) == Strip(RemoveMarkers(option_text, 1))

-----------------------------------------------------------------------------
(* parse_questions: the loop                                               *)

\* lines 21-24
ParseInit ==
    [questions |-> <<>>, current_question |-> NoneVal,
     current_options |-> <<>>, correct_answer |-> NoneVal]

\* [opt[0] for opt in current_options]
OptionTexts(current_options) ==
    [i \in 1..Len(current_options) |-> current_options[i][1]]

\* Finalize without the test of correct_answer
Finalize_NoAnswerCheck(st) ==
    IF Truthy(st.current_question) /\ Truthy(st.current_options)
    THEN Append(st.questions,
                [question |-> st.current_question,
                 options |-> OptionTexts(st.current_options),
                 correct_answer |-> st.correct_answer])
    ELSE st.questions

\* lines 32-37 and 50-55
Finalize(st) ==
    IF Truthy(st.current_question) /\ Truthy(st.current_options)
       /\ Truthy(st.correct_answer)
    THEN Append(st.questions,
                [question |-> st.current_question,
                 options |-> OptionTexts(st.current_options),
                 correct_answer |-> st.correct_answer])
    ELSE st.questions

\* lines 31-40: the header branch
HeaderBranch(st, line) ==
    [questions |-> Finalize(st), current_question |-> HeaderText(line),
     current_options |-> <<>>, correct_answer |-> NoneVal]

\* RecordCorrect keeping the first marked option
RecordCorrect_FirstWins(st, clean_text, is_correct) ==
    IF is_correct /\ st.correct_answer = NoneVal THEN clean_text
    ELSE st.correct_answer

\* lines 47-48
RecordCorrect(st, clean_text, is_correct) ==
    IF is_correct THEN clean_text ELSE st.correct_answer

\* lines 42-48: the option branch
OptionBranch(st, line) ==
    LET option_text == OptionText(line)
        is_correct == IsCorrect(option_text)
        clean_text == CleanText(option_text)
    IN  [st EXCEPT !.current_options = Append(@, <<clean_text, is_correct>>),
                   !.correct_answer = RecordCorrect(st, clean_text, is_correct)]

\* lines 27-48: the body of the for loop, for one element of text.split('\n')
ParseLine(st, raw) ==
    LET line == Strip(raw)
    IN  IF line = <<>> THEN st
        ELSE IF IsHeaderLine(line) THEN HeaderBranch(st, line)
        ELSE IF IsOptionLine(line) THEN OptionBranch(st, line)
        ELSE st

RECURSIVE ParseLoop(_, _, _)
ParseLoop(st, lines, i) ==
    IF i > Len(lines) THEN st ELSE ParseLoop(ParseLine(st, lines[i]), lines, i + 1)

\* lines 20-57
parse_questions(text) == Finalize(ParseLoop(ParseInit, SplitLines(text), 1))

-----------------------------------------------------------------------------
(* json.dumps(questions, indent=2) and json.load, on the characters         *)
(* (values are str, None, list and dict; numbers and booleans do not occur) *)

Quote == "\""
Backslash == "\\"
\* U+0008, written like Check
Backspace == "backspace"
ControlChars == {Newline, "\t", "\r", "\f", Backspace}

KeyQuestion == <<"q", "u", "e", "s", "t", "i", "o", "n">>
KeyOptions == <<"o", "p", "t", "i", "o", "n", "s">>
KeyCorrectAnswer ==
    <<"c", "o", "r", "r", "e", "c", "t", "_", "a", "n", "s", "w", "e", "r">>
WordNull == <<"n", "u", "l", "l">>
HexCheck == <<"2", "7", "1", "3">>

\* variant: an encoder that escapes nothing
EncodeChar_NoEscape(c) == <<c>>

\* the encoder's escapes (ensure_ascii): quote, backslash, control characters,
\* and \uXXXX for a character outside ASCII
EncodeChar(c) ==
    IF c = Quote THEN <<Backslash, Quote>>
    ELSE IF c = Backslash THEN <<Backslash, Backslash>>
    ELSE IF c = Newline THEN <<Backslash, "n">>
    ELSE IF c = "\t" THEN <<Backslash, "t">>
    ELSE IF c = "\r" THEN <<Backslash, "r">>
    ELSE IF c = "\f" THEN <<Backslash, "f">>
    ELSE IF c = Backspace THEN <<Backslash, "b">>
    ELSE IF c = Check THEN <<Backslash, "u">> \o HexCheck
    ELSE <<c>>

RECURSIVE EncodeChars(_)
EncodeChars(str) ==
    IF str = <<>> THEN <<>> ELSE EncodeChar(Head(str)) \o EncodeChars(Tail(str))

DumpStr(str) == <<Quote>> \o EncodeChars(str) \o <<Quote>>

\* a str or None
DumpStrOrNone(v) == IF v = NoneVal THEN WordNull ELSE DumpStr(v)

\* the newline and the indentation of nesting level n (indent=2)
RECURSIVE Spaces(_)
Spaces(n) == IF n = 0 THEN <<>> ELSE <<" ">> \o Spaces(n - 1)
NewlineIndent(level) == <<Newline>> \o Spaces(2 * level)

\* the items of a list, each on its own line, separated by ","
RECURSIVE DumpItems(_, _)
DumpItems(items, level) ==
    IF Len(items) = 1 THEN NewlineIndent(level) \o items[1]
    ELSE NewlineIndent(level) \o items[1] \o <<",">> \o DumpItems(Tail(items), level)

\* a list or dict whose items are already dumped
DumpContainer(open, items, close, level) ==
    IF items = <<>> THEN <<open, close>>
    ELSE <<open>> \o DumpItems(items, level + 1) \o NewlineIndent(level) \o <<close>>

DumpStrList(strs, level) ==
    DumpContainer("[", [i \in DOMAIN strs |-> DumpStr(strs[i])], "]", level)

DumpMember(key, dumped) == DumpStr(key) \o <<":", " ">> \o dumped

\* the dict parse_questions builds (lines 33, 36): its keys in insertion order
DumpQuestion(q, level) ==
    DumpContainer("{",
        << DumpMember(KeyQuestion, DumpStr(q.question)),
           DumpMember(KeyOptions, DumpStrList(q.options, level + 1)),
           DumpMember(KeyCorrectAnswer, DumpStrOrNone(q.correct_answer)) >>,
        "}", level)

\* line 161: json.dumps(st.session_state.questions, indent=2)
json_dumps(qs) ==
    DumpContainer("[", [i \in DOMAIN qs |-> DumpQuestion(qs[i], 1)], "]", 0)

\* the decoder skips whitespace between tokens
RECURSIVE SkipWs(_, _)
SkipWs(text, p) ==
    IF p <= Len(text) /\ text[p] \in {" ", "\t", Newline, "\r"}
    THEN SkipWs(text, p + 1) ELSE p

JsonFail == [ok |-> FALSE, val |-> <<>>, pos |-> 0]
JsonOk(v, p) == [ok |-> TRUE, val |-> v, pos |-> p]

\* the characters of a string from position p (after the opening quote) up to
\* the closing quote; a raw control character or a bad escape is an error
RECURSIVE DecodeChars(_, _)
DecodeChars(text, p) ==
    IF p > Len(text) THEN JsonFail
    ELSE IF text[p] = Quote THEN JsonOk(<<>>, p + 1)
    ELSE IF text[p] \in ControlChars THEN JsonFail
    ELSE IF text[p] # Backslash
         THEN LET r == DecodeChars(text, p + 1)
              IN  IF r.ok THEN JsonOk(<<text[p]>> \o r.val, r.pos) ELSE JsonFail
    ELSE IF p + 1 > Len(text) THEN JsonFail
    ELSE LET e == text[p + 1]
             c == IF e \in {Quote, Backslash, "/"} THEN <<e>>
                  ELSE IF e = "n" THEN <<Newline>>
                  ELSE IF e = "t" THEN <<"\t">>
                  ELSE IF e = "r" THEN <<"\r">>
                  ELSE IF e = "f" THEN <<"\f">>
                  ELSE IF e = "b" THEN <<Backspace>>
                  ELSE IF e = "u" /\ MatchAtCI(text, p + 2, HexCheck) THEN <<Check>>
                  ELSE <<>>
             n == IF e = "u" THEN 6 ELSE 2
         IN  IF c = <<>> THEN JsonFail
             ELSE LET r == DecodeChars(text, p + n)
                  IN  IF r.ok THEN JsonOk(c \o r.val, r.pos) ELSE JsonFail

\* the dict of a decoded object (later pairs of a key override earlier ones);
\* an object with the keys of a Question is the record of that Question
PairValue(pairs, key) ==
    pairs[CHOOSE i \in DOMAIN pairs :
              pairs[i][1] = key /\ \A j \in DOMAIN pairs : pairs[j][1] = key => j <= i][2]
DictOf(pairs) ==
    IF {pairs[i][1] : i \in DOMAIN pairs} = {KeyQuestion, KeyOptions, KeyCorrectAnswer}
    THEN [question |-> PairValue(pairs, KeyQuestion),
          options |-> PairValue(pairs, KeyOptions),
          correct_answer |-> PairValue(pairs, KeyCorrectAnswer)]
    ELSE [pairs |-> pairs]

RECURSIVE DecodeValue(_, _)
RECURSIVE DecodeElements(_, _)
RECURSIVE DecodeMembers(_, _)

\* the elements of an array from position p (a value is due) up to "]"
DecodeElements(text, p) ==
    LET v == DecodeValue(text, p)
        q == SkipWs(text, v.pos)
    IN  IF ~v.ok \/ q > Len(text) THEN JsonFail
        ELSE IF text[q] = "]" THEN JsonOk(<<v.val>>, q + 1)
        ELSE IF text[q] # "," THEN JsonFail
        ELSE LET r == DecodeElements(text, q + 1)
             IN  IF r.ok THEN JsonOk(<<v.val>> \o r.val, r.pos) ELSE JsonFail

\* the members of an object from position p (a key is due) up to "}"
DecodeMembers(text, p) ==
    LET k == SkipWs(text, p)
    IN  IF k > Len(text) \/ text[k] # Quote THEN JsonFail
        ELSE LET key == DecodeChars(text, k + 1)
                 c == SkipWs(text, key.pos)
             IN  IF ~key.ok \/ c > Len(text) \/ text[c] # ":" THEN JsonFail
                 ELSE LET v == DecodeValue(text, c + 1)
                          q == SkipWs(text, v.pos)
                      IN  IF ~v.ok \/ q > Len(text) THEN JsonFail
                          ELSE IF text[q] = "}"
                               THEN JsonOk(<< <<key.val, v.val>> >>, q + 1)
                          ELSE IF text[q] # "," THEN JsonFail
                          ELSE LET r == DecodeMembers(text, q + 1)
                               IN  IF r.ok
                                   THEN JsonOk(<< <<key.val, v.val>> >> \o r.val, r.pos)
                                   ELSE JsonFail

\* one JSON value from position p on: a string, null, an array or an object
DecodeValue(text, p) ==
    LET q == SkipWs(text, p)
    IN  IF q > Len(text) THEN JsonFail
        ELSE IF text[q] = Quote THEN DecodeChars(text, q + 1)
        ELSE IF MatchAt(text, q, WordNull) THEN JsonOk(NoneVal, q + Len(WordNull))
        ELSE IF text[q] = "["
             THEN LET e == SkipWs(text, q + 1)
                  IN  IF e <= Len(text) /\ text[e] = "]" THEN JsonOk(<<>>, e + 1)
                      ELSE DecodeElements(text, q + 1)
        ELSE IF text[q] = "{"
             THEN LET e == SkipWs(text, q + 1)
                  IN  IF e <= Len(text) /\ text[e] = "}" THEN JsonOk(DictOf(<<>>), e + 1)
                      ELSE LET m == DecodeMembers(text, q + 1)
                           IN  IF m.ok THEN JsonOk(DictOf(m.val), m.pos) ELSE JsonFail
        ELSE JsonFail

\* line 168, json.load on the whole content of a file: the value of the
\* document, or JSONDecodeError (ok = FALSE) when the text is no JSON document
\* or something other than whitespace follows the value
json_loads(text) ==
    LET v == DecodeValue(text, 1)
    IN  IF v.ok /\ SkipWs(text, v.pos) > Len(text)
        THEN [ok |-> TRUE, data |-> v.val]
        ELSE [ok |-> FALSE, data |-> <<>>]

-----------------------------------------------------------------------------
(* Session state and the pieces of main()                                  *)

MaxQuestions == 2

\* the session state as one value, with the outcome of the run so far:
\* rerun = st.rerun() was raised, op = the handler that was executed
State ==
    [questions |-> questions,
     current_question_index |-> current_question_index,
     user_answers |-> user_answers,
     quiz_started |-> quiz_started,
     quiz_completed |-> quiz_completed,
     submitted |-> submitted,
     q_submitted |-> q_submitted,
     uploaded_file |-> uploaded_file,
     file_consumed |-> file_consumed,
     rerun |-> FALSE,
     op |-> "none"]

\* a widget event: the widget the user acted on and the value it carries
Event(w, a) == [widget |-> w, arg |-> a]
NoEvent == Event("none", <<>>)

\* the file_uploader holds no file
NoFile == [present |-> FALSE, json |-> FALSE, data |-> <<>>]

\* a file with the given content, kept as what json.load makes of its bytes
FileOf(text) ==
    LET r == json_loads(text)
    IN  [present |-> TRUE, json |-> r.ok, data |-> r.data]

\* user_answers.get(i)
AnswerGet(answers, i) == IF i \in DOMAIN answers THEN answers[i] ELSE NoneVal

\* st.session_state.get(submitted_key, False)
FlagGet(flags, i) == IF i \in DOMAIN flags THEN flags[i] ELSE FALSE

\* questions[i] of the 0-based Python list
QuestionAt(qs, i) == qs[i + 1]

\* json.load(uploaded_file): the decoded array, or JSONDecodeError (ok = FALSE).
\* A file object read before is at its end unless the framework hands the
\* script a rewound one (fresh); at its end it reads as the empty document.
json_load(file, consumed, fresh) ==
    IF ~consumed \/ fresh
    THEN [ok |-> file.json, data |-> file.data]
    ELSE [ok |-> FALSE, data |-> <<>>]

\* lines 109-114
RECURSIVE ScoreLoop(_, _, _)
ScoreLoop(qs, answers, i) ==
    IF i >= Len(qs) THEN 0
    ELSE (IF AnswerGet(answers, i) = QuestionAt(qs, i).correct_answer THEN 1 ELSE 0)
         + ScoreLoop(qs, answers, i + 1)

calculate_score(s) == ScoreLoop(s.questions, s.user_answers, 0)

\* lines 123-124: the per-question flags of the questions now in the list
ResetFlags(s) ==
    [i \in DOMAIN s.q_submitted \cup (0..(Len(s.questions) - 1)) |->
        IF i < Len(s.questions) THEN FALSE ELSE s.q_submitted[i]]

\* variant: reset_quiz() without line 119
reset_quiz_KeepsIndex(s) ==
    [s EXCEPT !.quiz_started = FALSE,
              !.quiz_completed = FALSE,
              !.user_answers = <<>>,
              !.submitted = FALSE,
              !.q_submitted = ResetFlags(s)]

\* lines 116-124
reset_quiz(s) ==
    [s EXCEPT !.quiz_started = FALSE,
              !.quiz_completed = FALSE,
              !.current_question_index = 0,
              !.user_answers = <<>>,
              !.submitted = FALSE,
              !.q_submitted = ResetFlags(s)]

\* variant: a text without questions resets the quiz
add_questions_from_text_ResetOnEmpty(s, text) ==
    LET parsed == parse_questions(text)
    IN  IF parsed = <<>>
        THEN [reset_quiz(s) EXCEPT !.op = "add_failed"]
        ELSE [s EXCEPT !.questions = @ \o parsed, !.rerun = TRUE, !.op = "add"]

\* lines 59-65, with the caller's lines 152-155
add_questions_from_text(s, text) ==
    LET parsed == parse_questions(text)
    IN  IF parsed = <<>>
        THEN [s EXCEPT !.op = "add_failed"]
        ELSE [s EXCEPT !.questions = @ \o parsed, !.rerun = TRUE, !.op = "add"]

\* lines 152-155
AddButton(s, ev) ==
    IF ev.widget = "add" THEN add_questions_from_text(s, ev.arg) ELSE s

\* variant: a file that cannot be decoded empties the questions
Uploader_ClearOnError(s, fresh) ==
    IF s.rerun THEN s
    ELSE IF s.questions = <<>>
         THEN [s EXCEPT !.uploaded_file = NoFile, !.file_consumed = FALSE]
    ELSE IF ~s.uploaded_file.present THEN s
    ELSE LET r == json_load(s.uploaded_file, s.file_consumed, fresh)
         IN  IF r.ok
             THEN [s EXCEPT !.questions = @ \o r.data, !.file_consumed = TRUE,
                            !.rerun = TRUE, !.op = "import"]
             ELSE [s EXCEPT !.questions = <<>>, !.file_consumed = TRUE,
                            !.op = "import_failed"]

\* lines 165-173; a file_uploader that a finished run did not render loses its file
Uploader(s, fresh) ==
    IF s.rerun THEN s
    ELSE IF s.questions = <<>>
         THEN [s EXCEPT !.uploaded_file = NoFile, !.file_consumed = FALSE]
    ELSE IF ~s.uploaded_file.present THEN s
    ELSE LET r == json_load(s.uploaded_file, s.file_consumed, fresh)
         IN  IF r.ok
             THEN [s EXCEPT !.questions = @ \o r.data, !.file_consumed = TRUE,
                            !.rerun = TRUE, !.op = "import"]
             ELSE [s EXCEPT !.file_consumed = TRUE, !.op = "import_failed"]

\* variant: "Clear All Questions" without reset_quiz()
ClearAll_NoReset(s) ==
    [s EXCEPT !.questions = <<>>, !.rerun = TRUE, !.op = "clearAll"]

\* lines 175-178
ClearAll(s) ==
    [reset_quiz([s EXCEPT !.questions = <<>>]) EXCEPT !.rerun = TRUE, !.op = "clearAll"]

ClearButton(s, ev) ==
    IF ~s.rerun /\ s.questions # <<>> /\ ev.widget = "clear" THEN ClearAll(s) ELSE s

\* lines 130-178
Sidebar(s, ev, fresh) == ClearButton(Uploader(AddButton(s, ev), fresh), ev)

\* lines 188-190
StartButton(s, ev) ==
    IF ev.widget = "start"
    THEN [s EXCEPT !.quiz_started = TRUE, !.rerun = TRUE, !.op = "start"]
    ELSE s

\* lines 75-76
InitFlag(s, question_num) ==
    IF question_num \in DOMAIN s.q_submitted THEN s
    ELSE [s EXCEPT !.q_submitted =
            [i \in DOMAIN @ \cup {question_num} |->
                IF i = question_num THEN FALSE ELSE @[i]]]

\* InputShown without the test of the per-question flag
InputShown_Always(s, question_num) == TRUE

\* line 78: the radio and the Submit button are shown
InputShown(s, question_num) == ~s.q_submitted[question_num]

\* lines 88-91
SubmitAnswer(s, question_num, selected_option) ==
    [s EXCEPT !.submitted = TRUE,
              !.q_submitted = [@ EXCEPT ![question_num] = TRUE],
              !.user_answers =
                  [i \in DOMAIN @ \cup {question_num} |->
                      IF i = question_num THEN selected_option ELSE @[i]],
              !.rerun = TRUE,
              !.op = "submit"]

\* lines 67-106
display_question(s, question_num, ev) ==
    LET s1 == InitFlag(s, question_num)
    IN  IF InputShown(s1, question_num) /\ ev.widget = "submit"
        THEN SubmitAnswer(s1, question_num, ev.arg)
        ELSE s1

\* lines 205-208
PreviousButton(s, ev) ==
    IF ~s.rerun /\ s.current_question_index > 0 /\ ev.widget = "previous"
    THEN [s EXCEPT !.current_question_index = @ - 1, !.rerun = TRUE,
                   !.op = "previous"]
    ELSE s

\* HasNext off by one
HasNext_OffByOne(s) == s.current_question_index < Len(s.questions)

\* line 211: the current question is not the last one
HasNext(s) == s.current_question_index < Len(s.questions) - 1

\* lines 210-218
NextButton(s, ev) ==
    IF s.rerun \/ ~FlagGet(s.q_submitted, s.current_question_index) THEN s
    ELSE IF HasNext(s)
         THEN IF ev.widget = "next"
              THEN [s EXCEPT !.current_question_index = @ + 1, !.rerun = TRUE,
                             !.op = "next"]
              ELSE s
         ELSE IF ev.widget = "finish"
              THEN [s EXCEPT !.quiz_completed = TRUE, !.rerun = TRUE,
                             !.op = "finish"]
              ELSE s

\* lines 199-220
QuestionView(s, ev) ==
    IF s.current_question_index < Len(s.questions)
    THEN NextButton(
             PreviousButton(
                 display_question(s, s.current_question_index, ev), ev), ev)
    ELSE [s EXCEPT !.quiz_completed = TRUE]

\* lines 222-240
ResultsView(s, ev) ==
    IF ~s.rerun /\ s.quiz_completed /\ ev.widget = "retake"
    THEN [reset_quiz(s) EXCEPT !.rerun = TRUE, !.op = "reset"]
    ELSE s

\* lines 180-240
Body(s, ev) ==
    IF s.rerun \/ s.questions = <<>> THEN s
    ELSE ResultsView(IF ~s.quiz_started THEN StartButton(s, ev)
                                         ELSE QuestionView(s, ev), ev)

\* lines 126-240: one run of the script with the widget event ev
main(s, ev, fresh) == Body(Sidebar(s, ev, fresh), ev)

-----------------------------------------------------------------------------
(* Inputs                                                                  *)

\* '\n'.join(lines)
RECURSIVE JoinLines(_)
JoinLines(lines) ==
    IF Len(lines) = 0 THEN <<>>
    ELSE IF Len(lines) = 1 THEN lines[1]
    ELSE lines[1] \o <<Newline>> \o JoinLines(Tail(lines))

\* texts typed into the text_area of the session
TextOne == JoinLines(<< <<"1", ".", "W">>, <<"a", ")", "A", "*">>, <<"b", ")", "B">> >>)
TextTwo == JoinLines(<< <<"Q", ":", "F">>, <<"a", ")", "A">>, <<"b", ")", "B", Check>> >>)
TextNone == JoinLines(<< <<"1", ".", "W">>, <<"a", ")", "A">> >>)
AddTexts == {TextOne, TextTwo, TextNone}

\* a text whose question holds characters the JSON encoder escapes
TextQuoted ==
    JoinLines(<< <<"Q", ":", Quote, "F", Backslash, Quote>>, <<"a", ")", "A", "*">> >>)
ExportTexts == {TextOne, TextQuoted, TextNone}

\* lines the parser's inputs are made of
MaxLines == 3
LineSet ==
    { <<"1", ".", "W">>,
      <<"2", ".", "W", "3", ".", "5">>,
      <<"Q", "u", "e", "s", "t", "i", "o", "n", " ", "3", ":", "F">>,
      <<"3", ".">>,
      <<"a", ")", "A">>,
      <<"b", ")", "B", " ", "*">>,
      <<"c", ")", "C", "[", "C", "O", "R", "R", "E", "C", "T", "]">>,
      <<"d", ")", "*">>,
      <<"a", ")", "A", "[", "c", "o", "r", "r", "e", "c", "t", "]">>,
      <<"b", ")", "[", "C", "O", "R", "*", "R", "E", "C", "T", "]">>,
      <<"1", ")", "D", Check>>,
      <<"2", ")", "E">>,
      <<" ">> }
ParseInputs ==
    {JoinLines(ls) : ls \in UNION {[1..n -> LineSet] : n \in 1..MaxLines}}

\* files given to the file_uploader: a JSON array with an entry whose answer is
\* null (null decodes to None), and a JSON array cut off in the middle
ImportedQuestion ==
    [question |-> <<"G">>, options |-> << <<"A">>, <<"B">> >>,
     correct_answer |-> <<"B">>]
NullAnswerQuestion ==
    [question |-> <<"H">>, options |-> << <<"A">> >>, correct_answer |-> NoneVal]
GoodText == json_dumps(<<ImportedQuestion>>)
FileNull == FileOf(json_dumps(<<NullAnswerQuestion>>))
FileBad == FileOf(SubSeq(GoodText, 1, Len(GoodText) \div 2))
Files == {FileNull, FileBad}

-----------------------------------------------------------------------------
(* The session: one step is one run of main()                              *)

\* lines 6-18
Init ==
    /\ questions = <<>>
    /\ current_question_index = 0
    /\ user_answers = <<>>
    /\ quiz_started = FALSE
    /\ quiz_completed = FALSE
    /\ submitted = FALSE
    /\ q_submitted = <<>>
    /\ question_text = <<>>
    /\ uploaded_file = NoFile
    /\ file_consumed = FALSE
    /\ rerun_pending = FALSE
    /\ last_op = "none"

\* the session state a run of main() leaves behind.  The user adds and uploads
\* up to MaxQuestions questions; a file the file_uploader still holds may give
\* the session one more.
Apply(r, text) ==
    /\ Len(r.questions) <= MaxQuestions + 1
    /\ questions' = r.questions
    /\ current_question_index' = r.current_question_index
    /\ user_answers' = r.user_answers
    /\ quiz_started' = r.quiz_started
    /\ quiz_completed' = r.quiz_completed
    /\ submitted' = r.submitted
    /\ q_submitted' = r.q_submitted
    /\ question_text' = text
    /\ uploaded_file' = r.uploaded_file
    /\ file_consumed' = r.file_consumed
    /\ rerun_pending' = r.rerun
    /\ last_op' = r.op

\* what the framework may hand the script for a file that was read before: the
\* same object, at its end, or a rewound one
FreshChoices == IF uploaded_file.present /\ file_consumed THEN BOOLEAN ELSE {FALSE}

\* the run a widget event triggers; the widget was drawn by the last finished run
Run(ev) == \E fresh \in FreshChoices : Apply(main(State, ev, fresh), question_text)

\* the question view (lines 199-218) was drawn
QuestionShown ==
    /\ questions # <<>>
    /\ quiz_started
    /\ current_question_index < Len(questions)

\* text typed, then "Add Questions" (line 152)
AddQuestions(texts) ==
    /\ ~rerun_pending
    /\ \E t \in texts, fresh \in FreshChoices :
           Apply(main(State, Event("add", t), fresh), t)
    /\ Len(questions') <= MaxQuestions \/ questions' = questions

\* a file chosen in the file_uploader (line 165)
UploadFile ==
    /\ ~rerun_pending
    /\ questions # <<>>
    /\ ~uploaded_file.present
    /\ \E f \in Files :
           Apply(main([State EXCEPT !.uploaded_file = f, !.file_consumed = FALSE],
                      NoEvent, FALSE), question_text)
    /\ Len(questions') <= MaxQuestions \/ questions' = questions

\* "Export Questions" (line 158) saved a file when the session held the first n
\* of its questions, and that file is chosen in the file_uploader
UploadExport ==
    /\ ~rerun_pending
    /\ questions # <<>>
    /\ ~uploaded_file.present
    /\ \E n \in 1..Len(questions) :
           Apply(main([State EXCEPT
                          !.uploaded_file = FileOf(json_dumps(SubSeq(questions, 1, n))),
                          !.file_consumed = FALSE],
                      NoEvent, FALSE), question_text)
    /\ Len(questions') <= MaxQuestions \/ questions' = questions

\* the file removed from the file_uploader
RemoveFile ==
    /\ ~rerun_pending
    /\ questions # <<>>
    /\ uploaded_file.present
    /\ Apply(main([State EXCEPT !.uploaded_file = NoFile, !.file_consumed = FALSE],
                  NoEvent, FALSE), question_text)

\* "Clear All Questions" (line 175)
ClearAllQuestions ==
    /\ ~rerun_pending
    /\ questions # <<>>
    /\ Run(Event("clear", <<>>))

\* "Start Quiz" (line 188)
StartQuiz ==
    /\ ~rerun_pending
    /\ questions # <<>>
    /\ ~quiz_started
    /\ Run(Event("start", <<>>))

\* an option chosen in the radio (line 79): a run without a button
SelectOption ==
    /\ ~rerun_pending
    /\ QuestionShown
    /\ InputShown(InitFlag(State, current_question_index), current_question_index)
    /\ QuestionAt(questions, current_question_index).options # <<>>
    /\ Run(NoEvent)

\* an option chosen in the radio, then "Submit Answer" (line 87)
SubmitClick ==
    /\ ~rerun_pending
    /\ QuestionShown
    /\ InputShown(InitFlag(State, current_question_index), current_question_index)
    /\ \E k \in DOMAIN QuestionAt(questions, current_question_index).options :
           Run(Event("submit",
                     QuestionAt(questions, current_question_index).options[k]))

\* "Previous" (line 206)
PreviousClick ==
    /\ ~rerun_pending
    /\ QuestionShown
    /\ current_question_index > 0
    /\ Run(Event("previous", <<>>))

\* "Next" (line 212)
NextClick ==
    /\ ~rerun_pending
    /\ QuestionShown
    /\ FlagGet(q_submitted, current_question_index)
    /\ HasNext(State)
    /\ Run(Event("next", <<>>))

\* "Finish Quiz" (line 216)
FinishClick ==
    /\ ~rerun_pending
    /\ QuestionShown
    /\ FlagGet(q_submitted, current_question_index)
    /\ ~HasNext(State)
    /\ Run(Event("finish", <<>>))

\* "Retake Quiz" (line 238)
RetakeClick ==
    /\ ~rerun_pending
    /\ questions # <<>>
    /\ quiz_completed
    /\ Run(Event("retake", <<>>))

\* the run that st.rerun() asked for; while it is pending no widget event is
\* taken, so it is the only step the session can make
Rerun ==
    /\ rerun_pending
    /\ Run(NoEvent)

Next ==
    \/ AddQuestions(AddTexts)
    \/ UploadFile
    \/ RemoveFile
    \/ ClearAllQuestions
    \/ StartQuiz
    \/ SelectOption
    \/ SubmitClick
    \/ PreviousClick
    \/ NextClick
    \/ FinishClick
    \/ RetakeClick
    \/ Rerun

Spec == Init /\ [][Next]_vars

\* a session whose files are its own exports
NextExport ==
    \/ AddQuestions(ExportTexts)
    \/ UploadExport
    \/ RemoveFile
    \/ ClearAllQuestions
    \/ StartQuiz
    \/ SubmitClick
    \/ Rerun

SpecExport == Init /\ [][NextExport]_vars

\* the parser alone: a new session with a text in the text_area, and one click
\* on "Add Questions"
InitParse ==
    /\ questions = <<>>
    /\ current_question_index = 0
    /\ user_answers = <<>>
    /\ quiz_started = FALSE
    /\ quiz_completed = FALSE
    /\ submitted = FALSE
    /\ q_submitted = <<>>
    /\ question_text \in ParseInputs
    /\ uploaded_file = NoFile
    /\ file_consumed = FALSE
    /\ rerun_pending = FALSE
    /\ last_op = "none"

ParseOnce ==
    /\ questions = <<>>
    /\ last_op = "none"
    /\ AddQuestions({question_text})

NextParse == ParseOnce \/ Rerun

SpecParse == InitParse /\ [][NextParse]_vars

-----------------------------------------------------------------------------
(* The blocks of the text in the text_area, read off its lines             *)
(* (under SpecParse, questions is the parse of question_text)              *)

\* the lines of the text, stripped, the blank ones left out
TextLines ==
    LET raw == SplitLines(question_text)
    IN  SelectSeq([i \in 1..Len(raw) |-> Strip(raw[i])], LAMBDA l : l # <<>>)

\* "Add Questions" was clicked on the text in the text_area
Parsed == last_op \in {"add", "add_failed"} \/ questions # <<>>

\* the lines among ls that the parser takes for question headers
HeadersOf(ls) == {h \in DOMAIN ls : IsHeaderLine(ls[h])}

\* the last line of the block that header h starts (hs: the headers of ls)
BlockEnd(ls, hs, h) ==
    IF \E j \in hs : j > h
    THEN (CHOOSE j \in hs : j > h /\ \A k \in hs : k > h => j <= k) - 1
    ELSE Len(ls)

\* the option lines of block h, and those among them that carry a correct marker
BlockOptionLines(ls, hs, h) ==
    {j \in (h + 1)..BlockEnd(ls, hs, h) : IsOptionLine(ls[j])}
BlockMarkedLines(ls, hs, h) ==
    {j \in BlockOptionLines(ls, hs, h) : IsCorrect(OptionText(ls[j]))}

LastOf(S) == CHOOSE j \in S : \A k \in S : k <= j

\* the clean text of the option on line j
CleanOption(ls, j) == CleanText(OptionText(ls[j]))

\* the blocks that yield a Question
ProducingBlocks(ls, hs) ==
    {h \in hs :
        /\ HeaderText(ls[h]) # <<>>
        /\ BlockMarkedLines(ls, hs, h) # {}
        /\ CleanOption(ls, LastOf(BlockMarkedLines(ls, hs, h))) # <<>>}

\* the text is one block: a header that is no digit-marked line, then only option
\* lines with the markers 1)..4), exactly one of them with a correct marker
IsDigitOption(line) ==
    Len(line) >= 2 /\ line[1] \in {"1", "2", "3", "4"} /\ line[2] = ")"
DigitMarkedBlock(ls) ==
    /\ Len(ls) >= 2
    /\ IsHeaderLine(ls[1]) /\ ~IsDigitOption(ls[1])
    /\ HeaderText(ls[1]) # <<>>
    /\ \A j \in 2..Len(ls) : IsDigitOption(ls[j])
    /\ Cardinality({j \in 2..Len(ls) : IsCorrect(OptionText(ls[j]))}) = 1

-----------------------------------------------------------------------------
(* Claims about parse_questions, under SpecParse                           *)

\* C1: a header line followed by option lines marked 1)..4), exactly one of them
\* with a correct marker, parses to exactly one Question whose options are the
\* texts of those lines in order and whose correct answer is the marked one.
\* The code takes every line "<digit>)" for a question header (line 31 is tried
\* before line 42), so the block yields no Question at all.
C1_DigitOptionsParsed ==
    LET ls == TextLines
    IN  (Parsed /\ DigitMarkedBlock(ls)) =>
            /\ Len(questions) = 1
            /\ questions[1].options =
                   [i \in 1..(Len(ls) - 1) |-> CleanOption(ls, i + 1)]
            /\ \E j \in 2..Len(ls) :
                   /\ IsCorrect(OptionText(ls[j]))
                   /\ questions[1].correct_answer = CleanOption(ls, j)

\* C2: every Question the parser returns has a non-empty text, at least one
\* option and a correct answer that is one of its options; and it comes from a
\* block that has an option line and a marked option line, so that a block
\* without options or without a marker yields nothing.
C2_QuestionsWellFormed ==
    LET ls == TextLines
        hs == HeadersOf(ls)
        marked == {h \in hs : BlockMarkedLines(ls, hs, h) # {}}
    IN  /\ \A k \in DOMAIN questions :
               /\ Truthy(questions[k].question)
               /\ Len(questions[k].options) >= 1
               /\ \E j \in DOMAIN questions[k].options :
                      questions[k].options[j] = questions[k].correct_answer
               /\ \E h \in marked :
                      /\ questions[k].question = HeaderText(ls[h])
                      /\ Len(questions[k].options) =
                             Cardinality(BlockOptionLines(ls, hs, h))
        /\ Len(questions) <= Cardinality(marked)

\* C2 witness: a text of which one block became a Question and another block,
\* without a marked option, was dropped
C2_Witness ==
    LET ls == TextLines
        hs == HeadersOf(ls)
    IN  /\ last_op = "add"
        /\ Len(questions) = 1
        /\ \E h \in hs : HeaderText(ls[h]) # <<>> /\ BlockMarkedLines(ls, hs, h) = {}

\* C10: the blocks that yield a Question yield them in order, and the Question
\* of a block with several marked options has the clean text of the last
\* marked option as its correct answer.
C10_LastMarkedWins ==
    LET ls == TextLines
        hs == HeadersOf(ls)
        pb == ProducingBlocks(ls, hs)
    IN  Parsed =>
            /\ Len(questions) = Cardinality(pb)
            /\ \A h \in pb :
                   Cardinality(BlockMarkedLines(ls, hs, h)) >= 2 =>
                       questions[Cardinality({g \in pb : g <= h})].correct_answer =
                           CleanOption(ls, LastOf(BlockMarkedLines(ls, hs, h)))

\* C10 witness: a Question from a block whose first and last marked options differ
C10_Witness ==
    LET ls == TextLines
        hs == HeadersOf(ls)
    IN  /\ last_op = "add"
        /\ \E h \in ProducingBlocks(ls, hs) :
               \E j \in BlockMarkedLines(ls, hs, h) :
                   /\ j < LastOf(BlockMarkedLines(ls, hs, h))
                   /\ CleanOption(ls, j) # <<>>
                   /\ CleanOption(ls, j) #
                          CleanOption(ls, LastOf(BlockMarkedLines(ls, hs, h)))

\* C11: no option and no correct answer of a returned Question holds a correct
\* marker: "*", "[CORRECT]" in any letter case, or the check mark.  The code
\* finds markers without regard to case (line 44) but removes them with regard
\* to case and in one pass (line 45).
C11_NoMarkerLeft ==
    Parsed =>
        \A k \in DOMAIN questions :
            /\ ~IsCorrect(questions[k].correct_answer)
            /\ \A j \in DOMAIN questions[k].options :
                   ~IsCorrect(questions[k].options[j])

\* C12: removing the markers from an option text the parser has already
\* cleaned, and trimming, gives that text again.
C12_StripIdempotent ==
    Parsed =>
        \A k \in DOMAIN questions :
            \A j \in DOMAIN questions[k].options :
                CleanText(questions[k].options[j]) = questions[k].options[j]

\* the length of the leading header marker of a header line: the digits and the
\* "." or ")" after them, or Q/Question with the colons, spaces, digits and "."
\* the pattern of line 38 takes at the start of the line
LeadingMarkerLen(line) ==
    IF NumberedHeader(line) THEN DigitRun(line, 1) + 1 ELSE QPrefixLen(line)

\* C17: the text of a Question is its header line without the leading header
\* marker, trimmed; what follows the marker is left as written.
C17_HeaderTextKeepsPrompt ==
    LET ls == TextLines
        hs == HeadersOf(ls)
        pb == ProducingBlocks(ls, hs)
    IN  Parsed =>
            /\ Len(questions) = Cardinality(pb)
            /\ \A h \in pb :
                   questions[Cardinality({g \in pb : g <= h})].question =
                       Strip(SubSeq(ls[h], LeadingMarkerLen(ls[h]) + 1, Len(ls[h])))

-----------------------------------------------------------------------------
(* Claims about the session, under Spec                                    *)

\* calculate_score() in the current state
Score == calculate_score(State)

\* the indices whose recorded answer is the question's correct answer
CorrectlyAnswered ==
    {i \in DOMAIN user_answers :
        i < Len(questions) /\ user_answers[i] = QuestionAt(questions, i).correct_answer}

\* C3: right after clearAll the session is as after reset() followed by emptying
\* questions: no questions, no answers, index 0, not started, not completed, and
\* no per-question submitted flag set.  The code empties questions first, so
\* reset_quiz() finds no index whose flag it would clear.
C3_ClearAllResetsEverything ==
    last_op = "clearAll" =>
        /\ questions = <<>>
        /\ user_answers = <<>>
        /\ current_question_index = 0
        /\ ~quiz_started
        /\ ~quiz_completed
        /\ \A i \in DOMAIN q_submitted : ~q_submitted[i]

\* C4: next() (advancing, or finishing on the last question) happens only when
\* user_answers holds a choice for the question it leaves.
C4_NextOnlyAfterAnswer ==
    /\ last_op = "next" => (current_question_index - 1) \in DOMAIN user_answers
    /\ last_op = "finish" => current_question_index \in DOMAIN user_answers

\* C5: the index stays inside the list: 0 <= index <= length, index < length
\* when there are questions, and next() on the last question completes the quiz
\* with the index still on the last question.
C5_IndexInBounds ==
    /\ 0 <= current_question_index
    /\ current_question_index <= Len(questions)
    /\ questions # <<>> => current_question_index < Len(questions)
    /\ last_op = "finish" =>
           quiz_completed /\ current_question_index = Len(questions) - 1

\* C5 witness: the quiz was finished on the last of two questions
C5_Witness ==
    /\ last_op = "finish"
    /\ Len(questions) = 2
    /\ current_question_index = 1
    /\ quiz_completed

\* C6: reset() leaves questions as they are and yields no answers, every
\* question's flag false, index 0, not started, not completed and score() = 0.
C6_ResetPostState ==
    [][last_op' = "reset" =>
          /\ questions' = questions
          /\ user_answers' = <<>>
          /\ \A i \in 0..(Len(questions') - 1) : ~FlagGet(q_submitted', i)
          /\ current_question_index' = 0
          /\ ~quiz_started'
          /\ ~quiz_completed'
          /\ Score' = 0]_vars

\* C7: while the quiz is started, no add and no import changes questions.
C7_AddImportOnlyWhileBuilding ==
    [][(quiz_started /\ last_op' \in {"add", "import"}) =>
          questions' = questions]_vars

\* C8: an index that has an answer is never submitted again, and its answer
\* stays what it is in every step that is not reset() or clearAll().
C8_AnswerKept ==
    [][/\ last_op' = "submit" =>
              current_question_index \notin DOMAIN user_answers
       /\ last_op' \notin {"reset", "clearAll"} =>
              \A i \in DOMAIN user_answers :
                  i \in DOMAIN user_answers' /\ user_answers'[i] = user_answers[i]
      ]_vars

\* C8 witness: back on a question that was answered before
C8_Witness ==
    /\ last_op = "previous"
    /\ current_question_index \in DOMAIN user_answers
    /\ Len(QuestionAt(questions, current_question_index).options) >= 2

\* C9: when the results are shown, score() is the number of indices whose
\* recorded answer equals the question's correct answer; an index without a
\* recorded answer does not count.
C9_ScoreCountsAnswers ==
    quiz_completed => Score = Cardinality(CorrectlyAnswered)

\* the step leaves the session fields of lines 6-18 as they are, and every
\* per-question flag reads as before (line 75 gives a flag that is not yet
\* there its default)
SessionKept ==
    /\ UNCHANGED <<questions, current_question_index, user_answers,
                   quiz_started, quiz_completed, submitted>>
    /\ \A i \in DOMAIN q_submitted \cup DOMAIN q_submitted' :
           FlagGet(q_submitted', i) = FlagGet(q_submitted, i)

\* C13: "Add Questions" on a text without questions fails and leaves every
\* session field as it was; on a text with n >= 1 questions it succeeds and
\* questions becomes the old questions followed by those n, in order.
C13_AddQuestions ==
    [][/\ last_op' = "add_failed" =>
              /\ parse_questions(question_text') = <<>>
              /\ SessionKept
              /\ ~rerun_pending'
       /\ last_op' = "add" =>
              /\ Len(parse_questions(question_text')) >= 1
              /\ questions' = questions \o parse_questions(question_text')
              /\ rerun_pending'
      ]_vars

\* C13 witness: a failed add in a started quiz that holds an answer
C13_Witness ==
    /\ last_op = "add_failed"
    /\ quiz_started
    /\ user_answers # <<>>

\* C14: a file that is no JSON document is never imported; the failed import is
\* reported, the run goes on, and every session field is as it was.
C14_InvalidJsonKeepsState ==
    [][/\ last_op' = "import" => uploaded_file'.json
       /\ last_op' = "import_failed" =>
              /\ SessionKept
              /\ ~rerun_pending'
      ]_vars

\* C14 witness: the cut-off file was read in a started quiz that holds an answer
C14_Witness ==
    /\ last_op = "import_failed"
    /\ uploaded_file = FileBad
    /\ quiz_started
    /\ user_answers # <<>>

\* C15: right after "Start Quiz" questions is non-empty and the index is 0; a
\* started or completed quiz has at least one question.
C15_StartNeedsQuestions ==
    /\ last_op = "start" =>
           /\ questions # <<>>
           /\ quiz_started
           /\ current_question_index = 0
    /\ (quiz_started \/ quiz_completed) => Len(questions) >= 1

\* C15 witness: a quiz started again after it had been taken to its second
\* question
C15_Witness ==
    /\ last_op = "start"
    /\ \E i \in DOMAIN q_submitted : i >= 1

\* C18: the entries of a file are appended by the run in which the file was
\* chosen and by no later run: no import happens while the file_uploader
\* already holds the file.
C18_ImportOnce ==
    [][last_op' = "import" => ~uploaded_file.present]_vars

\* C19: while the quiz is completed, and until reset() or clearAll(), none of
\* Previous, Submit, Next and Finish is executed, and the index and the answers
\* stay as they are (steps of add and import, which C7 is about, left aside).
C19_CompletedIsFrozen ==
    [][(/\ quiz_completed
        /\ last_op' \notin {"reset", "clearAll", "add", "add_failed",
                            "import", "import_failed"}) =>
           /\ last_op' \notin {"previous", "submit", "next", "finish"}
           /\ current_question_index' = current_question_index
           /\ user_answers' = user_answers
      ]_vars

\* C20: every index that has an answer is an index of questions, and the answer
\* is one of the options of that question.
C20_AnswersValid ==
    \A i \in DOMAIN user_answers :
        /\ 0 <= i /\ i < Len(questions)
        /\ \E k \in DOMAIN QuestionAt(questions, i).options :
               QuestionAt(questions, i).options[k] = user_answers[i]

\* C20 witness: entries imported into a session that holds answers
C20_Witness ==
    /\ last_op = "import"
    /\ Cardinality(DOMAIN user_answers) >= 1
    /\ Len(questions) > Cardinality(DOMAIN user_answers)

-----------------------------------------------------------------------------
(* Claims about export and import, under SpecExport                        *)

\* a file was chosen in the file_uploader in this step
FileChosen == ~uploaded_file.present /\ uploaded_file'.present

====
